---- MODULE Spec2Model ----
(***************************************************************************)
(* A model of pyNBT (src/nbt.py, Python 2): the tag classes with their     *)
(* read/write codecs, the type table, and the nbt document object.         *)
(*                                                                         *)
(* A byte string is a sequence of 0..255.  A tag object is a record        *)
(*   byte    the class's type id (TAG_X.byte)                              *)
(*   name    <<>> for None, <<t>> for a TAG_String t                       *)
(*   length  length.data (String, List, Byte_Array), len(entries)          *)
(*           (Compound), 0 otherwise                                       *)
(*   data    the payload as a sequence of integers: one signed integer for *)
(*           Byte/Short/Int, the 32-bit pattern for Float, two signed      *)
(*           32-bit halves (high, low) for Long/Double, the raw bytes for  *)
(*           String, the signed bytes for Byte_Array                       *)
(*   type    the element class's type id (List)                            *)
(*   entries the children (List, Compound)                                 *)
(*   form    how a Compound holds its children: "dict" (what               *)
(*           TAG_Compound.read builds, keyed by name) or "list" (what the  *)
(*           constructor's docstring asks for)                             *)
(* A call's outcome is a record [err, tag, bytes]: err is "" on return and *)
(* the exception's name when the call raises.                              *)
(***************************************************************************)
EXTENDS Integers, Sequences, FiniteSets, TLC

VARIABLES
    hashOrder,  \* the build's iteration order of a dict's keys
    mode,       \* what the caller did first: "", "decode", "build", "codec"
    input,      \* the byte string the caller holds
    orig,       \* the tag trees the caller builds (programmatic construction)
    tags,       \* nbt.tags
    stream,     \* nbt.read's local `stream`
    pc,         \* the caller's position
    rt,         \* TRUE once nbt.read was given nbt.write's own result
    op,         \* the last function called, and its `named` argument
    arg,        \* the stream given to that call
    ret,        \* what that call returned or raised
    out         \* the last byte string written, or the exception raised

vars == <<hashOrder, mode, input, orig, tags, stream, pc, rt, op, arg, ret, out>>

-----------------------------------------------------------------------------
(* Python values *)

None == <<>>

Tag(b, nm, len, d, ty, es, fm) ==
    [byte |-> b, name |-> nm, length |-> len, data |-> d, type |-> ty,
     entries |-> es, form |-> fm]

NoTag == Tag(0, None, 0, <<>>, 0, <<>>, "")

Return(t, n) == [err |-> "", tag |-> t, bytes |-> n]

Raise(e) == [err |-> e, tag |-> NoTag, bytes |-> 0]

Min(a, b) == IF a < b THEN a ELSE b

Max(a, b) == IF a > b THEN a ELSE b

\* s[:n]
SliceTo(s, n) ==
    IF n >= 0 THEN SubSeq(s, 1, Min(n, Len(s)))
    ELSE SubSeq(s, 1, Max(Len(s) + n, 0))

\* s[n:]
SliceFrom(s, n) ==
    IF n >= 0 THEN SubSeq(s, Min(n, Len(s)) + 1, Len(s))
    ELSE SubSeq(s, Max(Len(s) + n, 0) + 1, Len(s))

-----------------------------------------------------------------------------
(* struct *)

\* a big-endian two's-complement integer of Len(bs) <= 4 bytes
RECURSIVE SInt(_)
SInt(bs) ==
    IF Len(bs) = 1 THEN (IF bs[1] >= 128 THEN bs[1] - 256 ELSE bs[1])
    ELSE SInt(SubSeq(bs, 1, Len(bs) - 1)) * 256 + bs[Len(bs)]

\* struct.unpack('>' + format, bs)[0] for a string of the format's size
Unpack(bs) ==
    IF Len(bs) = 8 THEN <<SInt(SubSeq(bs, 1, 4)), SInt(SubSeq(bs, 5, 8))>>
    ELSE <<SInt(bs)>>

Pow256(k) == CASE k = 0 -> 1 [] k = 1 -> 256 [] k = 2 -> 65536 [] k = 3 -> 16777216

\* the n <= 4 big-endian bytes of an integer v that fits them
BE(v, n) == [i \in 1..n |-> (v \div Pow256(n - i)) % 256]

Fits(v, n) ==
    CASE n = 1 -> v >= -128 /\ v <= 127
      [] n = 2 -> v >= -32768 /\ v <= 32767
      [] OTHER -> TRUE

\* struct.pack('>' + format, *d): [err, bytes]
Pack(d, n) ==
    IF n = 8
    THEN [err |-> "", bytes |-> BE(d[1], 4) \o BE(d[2], 4)]
    ELSE IF Fits(d[1], n) THEN [err |-> "", bytes |-> BE(d[1], n)]
         ELSE [err |-> "struct.error", bytes |-> <<>>]

-----------------------------------------------------------------------------
(* the tag classes' constants *)

TAG_End_byte == 0
TAG_Byte_byte == 1
TAG_Short_byte == 2
TAG_Int_byte == 3
TAG_Long_byte == 4
TAG_Float_byte == 5
TAG_Double_byte == 6
TAG_Byte_Array_byte == 7
TAG_String_byte == 8
TAG_List_byte == 9
TAG_Compound_byte == 10

\* cls.size of the TAG_Basic subclasses
size(cls) ==
    CASE cls = TAG_Byte_byte -> 1
      [] cls = TAG_Short_byte -> 2
      [] cls = TAG_Int_byte -> 4
      [] cls = TAG_Long_byte -> 8
      [] cls = TAG_Float_byte -> 4
      [] cls = TAG_Double_byte -> 8

IsBasic(cls) == cls \in TAG_Byte_byte..TAG_Double_byte

\* the keys of type_bytes; a class is named by its type id
type_bytes == TAG_End_byte..TAG_Compound_byte

-----------------------------------------------------------------------------
(* reading *)

\* get_tag_type with type_bytes.get(type_byte, TAG_End) for type_bytes[type_byte]
get_tag_type_default(s) ==
    IF Len(SliceTo(s, 1)) # 1 THEN [err |-> "struct.error", type |-> 0, bytes |-> 0]
    ELSE LET type_byte == SInt(SliceTo(s, 1))
         IN  [err |-> "", bytes |-> 1,
              type |-> IF type_byte \in type_bytes THEN type_byte ELSE TAG_End_byte]

\* get_tag_type(stream): [err, type, bytes]
get_tag_type(s) ==
    IF Len(SliceTo(s, 1)) # 1 THEN [err |-> "struct.error", type |-> 0, bytes |-> 0]
    ELSE LET type_byte == SInt(SliceTo(s, 1))
         IN  IF type_byte \notin type_bytes
             THEN [err |-> "KeyError", type |-> 0, bytes |-> 0]
             ELSE [err |-> "", type |-> type_byte, bytes |-> 1]

\* TAG_Basic.read(stream, False) for class cls
BasicBody(cls, s) ==
    IF Len(SliceTo(s, size(cls))) # size(cls) THEN Raise("struct.error")
    ELSE Return(Tag(cls, None, 0, Unpack(SliceTo(s, size(cls))), 0, <<>>, ""),
                size(cls))

\* TAG_String.read(stream, False)
StringBody(s) ==
    LET length == BasicBody(TAG_Short_byte, s)
    IN  IF length.err # "" THEN length
        ELSE LET sz == length.tag.data[1]
                 rest == SliceFrom(s, length.bytes)
                 string == SliceTo(rest, sz)
             IN  Return(Tag(TAG_String_byte, None, sz, string, 0, <<>>, ""),
                        length.bytes + sz)

\* the "Read name, if applicable" prologue shared by every read:
\* [err, name, bytes, stream]
ReadName(s, named) ==
    IF ~named THEN [err |-> "", name |-> None, bytes |-> 0, stream |-> s]
    ELSE LET r == StringBody(s)
         IN  IF r.err # ""
             THEN [err |-> r.err, name |-> None, bytes |-> 0, stream |-> s]
             ELSE [err |-> "", name |-> <<r.tag>>, bytes |-> r.bytes,
                   stream |-> SliceFrom(s, r.bytes)]

\* a read's result with the name attached and the name's bytes counted
Named(nm, r) ==
    IF nm.err # "" THEN Raise(nm.err)
    ELSE IF r.err # "" THEN r
    ELSE Return([r.tag EXCEPT !.name = nm.name], nm.bytes + r.bytes)

TAG_Basic_read(cls, s, named) ==
    LET nm == ReadName(s, named) IN Named(nm, BasicBody(cls, nm.stream))

TAG_String_read(s, named) ==
    LET nm == ReadName(s, named) IN Named(nm, StringBody(nm.stream))

\* TAG_Byte_Array.read(stream, False)
ByteArrayBody(s) ==
    LET length == BasicBody(TAG_Int_byte, s)
    IN  IF length.err # "" THEN length
        ELSE LET n == length.tag.data[1]
                 rest == SliceFrom(s, length.bytes)
                 sz == size(TAG_Byte_byte) * n
                 want == IF n < 0 THEN 0 ELSE n   \* 'b' * n is '' for n < 0
                 chunk == SliceTo(rest, sz)
             IN  IF Len(chunk) # want THEN Raise("struct.error")
                 ELSE Return(Tag(TAG_Byte_Array_byte, None, n,
                                 [i \in 1..Len(chunk) |-> SInt(<<chunk[i]>>)],
                                 0, <<>>, ""),
                             length.bytes + sz)

TAG_Byte_Array_read(s, named) ==
    LET nm == ReadName(s, named) IN Named(nm, ByteArrayBody(nm.stream))

-----------------------------------------------------------------------------
(* dict: the mapping TAG_Compound.read keeps its entries in *)

\* a <= b in the lexicographic order of byte strings
LexLeq(a, b) ==
    \E k \in 0..Min(Len(a), Len(b)) :
        /\ \A i \in 1..k : a[i] = b[i]
        /\ \/ k = Len(a)
           \/ k < Len(b) /\ a[k + 1] < b[k + 1]

\* Whether key a is iterated before key b.  A Python 2 dict is iterated in the
\* order of its hash slots: an order fixed by the keys and the build, not by
\* the order of insertion.  The model draws it from the two orders of any two
\* keys.
KeyBefore(a, b) ==
    a # b /\ (IF hashOrder = "asc" THEN LexLeq(a, b) ELSE LexLeq(b, a))

Key(e) == e.name[1].data

\* d[key] = e, the dict kept as the sequence of its values in iteration order
DictSet(d, e) ==
    IF \E i \in 1..Len(d) : Key(d[i]) = Key(e)
    THEN [i \in 1..Len(d) |-> IF Key(d[i]) = Key(e) THEN e ELSE d[i]]
    ELSE LET k == Cardinality({i \in 1..Len(d) : KeyBefore(Key(d[i]), Key(e))})
         IN  SubSeq(d, 1, k) \o <<e>> \o SubSeq(d, k + 1, Len(d))

\* d.values()
values(d) == d

-----------------------------------------------------------------------------
(* reading the containers *)

RECURSIVE TagRead(_, _, _)
RECURSIVE ListEntries(_, _, _, _, _)
RECURSIVE ListAppend(_, _, _, _, _, _)
RECURSIVE CompoundEntries(_, _, _)
RECURSIVE CompoundNext(_, _, _, _)
RECURSIVE CompoundPut(_, _, _, _)

\* the "Read entries" loop of TAG_List.read, i iterations left:
\* [err, entries, bytes]
ListEntries(tag_type, s, i, entries, bytes_read) ==
    IF i <= 0 THEN [err |-> "", entries |-> entries, bytes |-> bytes_read]
    ELSE ListAppend(tag_type, s, i, entries, bytes_read,
                    TagRead(tag_type, s, FALSE))

\* the loop's body once entry, bytes = tag_type.read(stream, False) is known
ListAppend(tag_type, s, i, entries, bytes_read, e) ==
    IF e.err # "" THEN [err |-> e.err, entries |-> <<>>, bytes |-> 0]
    ELSE ListEntries(tag_type, SliceFrom(s, e.bytes), i - 1,
                     Append(entries, e.tag), bytes_read + e.bytes)

\* the "Get tag type" lines of TAG_List.read: [err, type, bytes]
ListType(s) ==
    IF Len(SliceTo(s, 1)) # 1 THEN [err |-> "struct.error", type |-> 0, bytes |-> 0]
    ELSE LET type_byte == SInt(SliceTo(s, 1))
         IN  IF type_byte \notin type_bytes
             THEN [err |-> "KeyError", type |-> 0, bytes |-> 0]
             ELSE [err |-> "", type |-> type_byte, bytes |-> 1]

\* the tag TAG_List.read builds: cls((length, tag_type, entries), name)
ListTag(length, tag_type, entries) ==
    Tag(TAG_List_byte, None, length, <<>>, tag_type, entries, "")

\* TAG_List.read's return, the entries es read
ListDone(ty, length, es) ==
    IF es.err # "" THEN Raise(es.err)
    ELSE Return(ListTag(length.tag.data[1], ty.type, es.entries), es.bytes)

\* TAG_List.read from "Read entries", the list length read from s1
ListFill(s1, ty, length) ==
    IF length.err # "" THEN length
    ELSE ListDone(ty, length,
                  ListEntries(ty.type, SliceFrom(s1, length.bytes),
                              length.tag.data[1], <<>>, ty.bytes + length.bytes))

\* TAG_List.read from "Get list length", the tag type ty read from s
ListCount(s, ty) ==
    IF ty.err # "" THEN Raise(ty.err)
    ELSE ListFill(SliceFrom(s, ty.bytes), ty,
                  BasicBody(TAG_Int_byte, SliceFrom(s, ty.bytes)))

\* TAG_List.read(stream, False)
ListBody(s) == ListCount(s, ListType(s))

TAG_List_read(s, named) ==
    LET nm == ReadName(s, named) IN Named(nm, ListBody(nm.stream))

\* the `while True` loop of TAG_Compound.read: [err, entries, bytes]
CompoundEntries(s, entries, bytes_read) ==
    CompoundNext(s, entries, bytes_read, get_tag_type(s))

\* the loop's body once tag_type, bytes = get_tag_type(stream) is known
CompoundNext(s, entries, bytes_read, ty) ==
    IF ty.err # "" THEN [err |-> ty.err, entries |-> <<>>, bytes |-> 0]
    ELSE IF ty.type = TAG_End_byte
    THEN [err |-> "", entries |-> entries, bytes |-> bytes_read + ty.bytes]
    ELSE CompoundPut(SliceFrom(s, ty.bytes), entries, bytes_read + ty.bytes,
                     TagRead(ty.type, SliceFrom(s, ty.bytes), TRUE))

\* the loop's body once entry, bytes = tag_type.read(stream, True) is known
CompoundPut(s1, entries, bytes_read, e) ==
    IF e.err # "" THEN [err |-> e.err, entries |-> <<>>, bytes |-> 0]
    ELSE CompoundEntries(SliceFrom(s1, e.bytes), DictSet(entries, e.tag),
                         bytes_read + e.bytes)

\* TAG_Compound(data): entries = data, length = len(entries)
TAG_Compound(data, fm) ==
    Tag(TAG_Compound_byte, None, Len(data), <<>>, 0, data, fm)

\* TAG_Compound.read's return, the entries es read
CompoundDone(es) ==
    IF es.err # "" THEN Raise(es.err)
    ELSE Return(TAG_Compound(es.entries, "dict"), es.bytes)

\* TAG_Compound.read(stream, False)
CompoundBody(s) == CompoundDone(CompoundEntries(s, <<>>, 0))

TAG_Compound_read(s, named) ==
    LET nm == ReadName(s, named) IN Named(nm, CompoundBody(nm.stream))

\* tag_type.read(stream, named), tag_type a class of type_bytes
TagRead(cls, s, named) ==
    CASE IsBasic(cls) -> TAG_Basic_read(cls, s, named)
      [] cls = TAG_Byte_Array_byte -> TAG_Byte_Array_read(s, named)
      [] cls = TAG_String_byte -> TAG_String_read(s, named)
      [] cls = TAG_List_byte -> TAG_List_read(s, named)
      [] cls = TAG_Compound_byte -> TAG_Compound_read(s, named)
      [] OTHER -> Raise("AttributeError")   \* TAG_End has no read

\* nbt.read_tag's return, the tag r read after the type byte
ReadTagDone(ty, r) ==
    IF r.err # "" THEN r ELSE Return(r.tag, ty.bytes + r.bytes)

\* nbt.read_tag once type, bytes = get_tag_type(stream) is known
ReadTagOf(s, ty) ==
    IF ty.err # "" THEN Raise(ty.err)
    ELSE IF ty.type = TAG_End_byte THEN Raise("UnboundLocalError")
    ELSE ReadTagDone(ty, TagRead(ty.type, SliceFrom(s, ty.bytes), TRUE))

\* nbt.read_tag(stream)
read_tag(s) == ReadTagOf(s, get_tag_type(s))

-----------------------------------------------------------------------------
(* writing: [err, bytes] *)

Bytes(b) == [err |-> "", bytes |-> b]

Fail(e) == [err |-> e, bytes |-> <<>>]

\* a then b, unless one raises
Cat(a, b) ==
    IF a.err # "" THEN a ELSE IF b.err # "" THEN b
    ELSE Bytes(a.bytes \o b.bytes)

\* TAG_Short(v).write(False), TAG_Int(v).write(False), TAG_Byte(v).write(False)
WriteNum(cls, v) == Pack(<<v>>, size(cls))

\* TAG_String.write of a name: self.name.write(False)
WriteName(nm) ==
    IF nm = None THEN Bytes(<<>>)
    ELSE Cat(WriteNum(TAG_Short_byte, nm[1].length), Bytes(nm[1].data))

\* TAG.write(self, type_byte)
TAG_write(t, type_byte) ==
    Cat(IF type_byte THEN WriteNum(TAG_Byte_byte, t.byte) ELSE Bytes(<<>>),
        WriteName(t.name))

TAG_Basic_write(t, type_byte) ==
    Cat(TAG_write(t, type_byte), Pack(t.data, size(t.byte)))

TAG_String_write(t, type_byte) ==
    Cat(TAG_write(t, type_byte),
        Cat(WriteNum(TAG_Short_byte, t.length), Bytes(t.data)))

\* struct.pack('>' + 'b' * n, *bytes_array)
PackBytes(n, bytes_array) ==
    IF Len(bytes_array) # (IF n < 0 THEN 0 ELSE n) THEN Fail("struct.error")
    ELSE IF \E i \in 1..Len(bytes_array) : ~Fits(bytes_array[i], 1)
    THEN Fail("struct.error")
    ELSE Bytes([i \in 1..Len(bytes_array) |-> bytes_array[i] % 256])

TAG_Byte_Array_write(t, type_byte) ==
    Cat(TAG_write(t, type_byte),
        Cat(WriteNum(TAG_Int_byte, t.length), PackBytes(t.length, t.data)))

TAG_End_write == WriteNum(TAG_Byte_byte, TAG_End_byte)

RECURSIVE TagWrite(_, _)
RECURSIVE WriteAll(_, _)

\* the concatenation of entry.write(type_byte) over entries
WriteAll(entries, type_byte) ==
    IF entries = <<>> THEN Bytes(<<>>)
    ELSE Cat(TagWrite(entries[1], type_byte), WriteAll(Tail(entries), type_byte))

\* TAG_List.write taking the type id from the first entry
ListTypeByte_of_entries(t) ==
    WriteNum(TAG_Byte_byte,
             IF t.entries = <<>> THEN TAG_End_byte ELSE t.entries[1].byte)

\* the type id TAG_List.write emits: TAG_Byte(self.type.byte).write(False)
ListTypeByte(t) == WriteNum(TAG_Byte_byte, t.type)

TAG_List_write(t, type_byte) ==
    Cat(TAG_write(t, type_byte),
        Cat(ListTypeByte(t),
            Cat(WriteNum(TAG_Int_byte, t.length), WriteAll(t.entries, FALSE))))

TAG_Compound_write(t, type_byte) ==
    Cat(TAG_write(t, type_byte),
        IF t.form # "dict" THEN Fail("AttributeError")  \* a list has no values()
        ELSE Cat(WriteAll(values(t.entries), TRUE), TAG_End_write))

\* tag.write(type_byte)
TagWrite(t, type_byte) ==
    CASE IsBasic(t.byte) -> TAG_Basic_write(t, type_byte)
      [] t.byte = TAG_Byte_Array_byte -> TAG_Byte_Array_write(t, type_byte)
      [] t.byte = TAG_String_byte -> TAG_String_write(t, type_byte)
      [] t.byte = TAG_List_byte -> TAG_List_write(t, type_byte)
      [] t.byte = TAG_Compound_byte -> TAG_Compound_write(t, type_byte)

\* nbt.write()
nbt_write(ts) == WriteAll(ts, TRUE)

-----------------------------------------------------------------------------
(* programmatic construction *)

TAG_Basic(cls, d) == Tag(cls, None, 0, d, 0, <<>>, "")

\* TAG_String((TAG_Short(len(s)), s))
TAG_String(str) == Tag(TAG_String_byte, None, Len(str), str, 0, <<>>, "")

\* TAG_Byte_Array((TAG_Int(len(b)), b))
TAG_Byte_Array(b) == Tag(TAG_Byte_Array_byte, None, Len(b), b, 0, <<>>, "")

\* TAG_List((TAG_Int(len(entries)), type, entries))
TAG_List(tag_type, entries) == ListTag(Len(entries), tag_type, entries)

\* cls(data, name=TAG_String(...))
WithName(t, str) == [t EXCEPT !.name = <<TAG_String(str)>>]

RECURSIVE AsDict(_)
RECURSIVE AsDictAll(_)
RECURSIVE DictOf(_, _)

\* the dict {e.name.data: e for e in entries}, filled in the entries' order
DictOf(entries, d) ==
    IF entries = <<>> THEN d
    ELSE DictOf(Tail(entries), DictSet(d, AsDict(entries[1])))

AsDictAll(entries) ==
    IF entries = <<>> THEN <<>>
    ELSE <<AsDict(entries[1])>> \o AsDictAll(Tail(entries))

\* the tree t with every Compound given its children as a dict
AsDict(t) ==
    CASE t.byte = TAG_Compound_byte ->
             [t EXCEPT !.entries = DictOf(t.entries, <<>>),
                       !.length = Len(DictOf(t.entries, <<>>)), !.form = "dict"]
      [] t.byte = TAG_List_byte -> [t EXCEPT !.entries = AsDictAll(t.entries)]
      [] OTHER -> t

-----------------------------------------------------------------------------
(* the inputs: tag trees the caller builds, and byte strings in the wire    *)
(* format (Tag := TypeId [Name] Payload), whole, cut short or damaged       *)

MaxEntries == 2     \* children of a Compound
MaxTags == 3        \* root tags nbt.read collects
BigLen == 32768     \* the least String length with the high bit set

NameA == <<97>>
NameB == <<98>>

Leaves ==
    { TAG_Basic(TAG_Byte_byte, <<-1>>), TAG_Basic(TAG_Short_byte, <<258>>),
      TAG_Basic(TAG_Int_byte, <<-2>>), TAG_Basic(TAG_Long_byte, <<1, -1>>),
      TAG_Basic(TAG_Float_byte, <<1065353216>>),
      TAG_Basic(TAG_Double_byte, <<1072693248, 0>>),
      TAG_String(<<104, 105>>), TAG_Byte_Array(<<1, -1>>),
      TAG_List(TAG_Int_byte, <<>>),
      TAG_List(TAG_Byte_byte, <<TAG_Basic(TAG_Byte_byte, <<1>>),
                                TAG_Basic(TAG_Byte_byte, <<2>>)>>) }

\* the named children a Compound is given
Entries ==
    { WithName(t, n) :
        t \in { TAG_Basic(TAG_Byte_byte, <<-1>>), TAG_String(<<104, 105>>),
                TAG_List(TAG_Int_byte, <<>>) },
        n \in {NameA, NameB} }

EntrySeqs == UNION { [1..n -> Entries] : n \in 0..MaxEntries }

UniqueNames(es) == \A i, j \in 1..Len(es) : i # j => Key(es[i]) # Key(es[j])

\* a Compound holding a List of Compounds
Deep ==
    TAG_Compound(
        <<WithName(TAG_List(TAG_Compound_byte,
              <<TAG_Compound(<<WithName(TAG_Basic(TAG_Byte_byte, <<1>>), NameB),
                               WithName(TAG_Basic(TAG_Byte_byte, <<2>>), NameA)>>,
                             "list"),
                TAG_Compound(<<>>, "list")>>), NameA)>>, "list")

Roots ==
    { WithName(t, NameA) : t \in Leaves }
    \cup { WithName(TAG_Compound(es, "list"), NameA) : es \in EntrySeqs }
    \cup { WithName(Deep, NameB) }

SecondRoots ==
    { WithName(TAG_Basic(TAG_Int_byte, <<-2>>), NameB),
      WithName(TAG_Compound(<<WithName(TAG_String(<<104, 105>>), NameB),
                              WithName(TAG_Basic(TAG_Byte_byte, <<-1>>), NameA)>>,
                            "list"), NameB) }

Docs ==
    {<<>>} \cup { <<r>> : r \in Roots }
    \cup { <<r, q>> : r \in Roots, q \in SecondRoots }

RECURSIVE WellFormed(_)
\* names unique within every Compound
WellFormed(ts) ==
    \A i \in 1..Len(ts) :
        /\ ts[i].byte = TAG_Compound_byte => UniqueNames(ts[i].entries)
        /\ WellFormed(ts[i].entries)

DocTrees == { d \in Docs : WellFormed(d) }

RECURSIVE Wire(_, _)
RECURSIVE WireAll(_, _)

WireAll(ts, typed) ==
    IF ts = <<>> THEN <<>> ELSE Wire(ts[1], typed) \o WireAll(Tail(ts), typed)

\* the wire format of tree t: TypeId (when typed), Name (when named), Payload
Wire(t, typed) ==
    (IF typed THEN <<t.byte>> ELSE <<>>)
    \o (IF t.name = None THEN <<>> ELSE BE(Len(t.name[1].data), 2) \o t.name[1].data)
    \o CASE t.byte = TAG_Compound_byte -> WireAll(t.entries, TRUE) \o <<TAG_End_byte>>
         [] t.byte = TAG_List_byte ->
                <<t.type>> \o BE(Len(t.entries), 4) \o WireAll(t.entries, FALSE)
         [] t.byte = TAG_String_byte -> BE(Len(t.data), 2) \o t.data
         [] t.byte = TAG_Byte_Array_byte ->
                BE(Len(t.data), 4) \o [i \in 1..Len(t.data) |-> t.data[i] % 256]
         [] t.byte \in {TAG_Long_byte, TAG_Double_byte} ->
                BE(t.data[1], 4) \o BE(t.data[2], 4)
         [] OTHER -> BE(t.data[1], size(t.byte))

Prefixes(b) == { SubSeq(b, 1, k) : k \in 0..Len(b) }

\* type-id bytes outside 0..10
BadIds == {11, 99, 127, 129, 255}

Zeros(n) == [i \in 1..n |-> 0]

DocInputs == { WireAll(d, TRUE) : d \in Docs }

CutInputs == UNION { Prefixes(WireAll(<<r>>, TRUE)) : r \in Roots }

\* a document whose next root tag, or whose Compound's or List's next type id,
\* is no known type
UnknownDocs ==
    { WireAll(d, TRUE) \o <<b>> \o j : d \in {<<>>} \cup { <<r>> : r \in SecondRoots },
                                       b \in BadIds, j \in {<<>>, <<0, 0>>} }
    \cup { <<TAG_Compound_byte, 0, 0>> \o WireAll(es, TRUE) \o <<b, 0, 0, 0>> :
             es \in { e \in EntrySeqs : Len(e) <= 1 }, b \in BadIds }
    \cup { <<TAG_List_byte, 0, 0, b>> \o n : b \in BadIds,
                                            n \in {<<0, 0, 0, 0>>, <<0, 0, 0, 1, 0>>} }

CompoundPayloads == { Wire(TAG_Compound(es, "list"), FALSE) : es \in EntrySeqs }

CompoundUnknown ==
    { WireAll(es, TRUE) \o <<b>> \o j : es \in EntrySeqs, b \in BadIds,
                                        j \in {<<>>, <<1, 0>>} }

EmptyLists == { <<t>> \o Zeros(4) : t \in type_bytes }

ListPayloads ==
    EmptyLists
    \cup { <<t, 255, 255, 255, c>> \o j : t \in {TAG_Byte_byte, TAG_Int_byte},
                                         c \in {255, 254}, j \in {<<>>, <<7>>} }
    \cup { <<TAG_Int_byte, 128, 0, 0, 0>> }
    \cup { <<b>> \o n : b \in BadIds, n \in {<<0, 0, 0, 0>>, <<0, 0, 0, 1, 0>>} }
    \cup { <<TAG_End_byte, 0, 0, 0, 1>> }

ByteArrayPayloads ==
    { <<0, 0, 0, 5, 1>>, <<0, 0, 0, 2, 1, 255>>, <<255, 255, 0, 0>> }
    \cup { <<255, 255, 255, c>> \o j : c \in 247..255,
                                      j \in {<<>>, <<7>>, <<7, 7>>, <<7, 7, 7>>} }

\* a root Byte_Array whose count is negative
NegativeArrayDocs ==
    { <<TAG_Byte_Array_byte, 0, 0, 255, 255, 255, c>> \o j :
        c \in 247..255, j \in {<<>>, <<1>>} }

\* length bytes hi, lo followed by n bytes
StringPayload(hi, lo, n) == <<hi, lo>> \o Zeros(n)

StringPayloads ==
    { StringPayload(0, l, n) : l \in 0..3, n \in 0..4 }
    \cup { StringPayload(128, 0, BigLen), StringPayload(128, 1, BigLen + 2),
           StringPayload(255, 255, 4), StringPayload(255, 254, 0) }

Inputs ==
    DocInputs \cup CutInputs \cup UnknownDocs \cup CompoundPayloads
    \cup CompoundUnknown \cup ListPayloads \cup ByteArrayPayloads
    \cup NegativeArrayDocs \cup StringPayloads

-----------------------------------------------------------------------------
(* the caller and the nbt object *)

NoOp == [fn |-> "", cls |-> 0, named |-> FALSE, type_byte |-> FALSE]

Init ==
    /\ hashOrder \in {"asc", "desc"}
    /\ \/ input \in Inputs /\ orig = <<>>
       \/ input = <<>> /\ orig \in DocTrees
    /\ mode = ""
    /\ tags = <<>>          \* nbt.__init__
    /\ stream = <<>>
    /\ pc = "start"
    /\ rt = FALSE
    /\ op = NoOp
    /\ arg = <<>>
    /\ ret = Return(NoTag, 0)
    /\ out = Bytes(<<>>)

\* the caller fills nbt.tags with the trees of orig, every Compound built
\* from a list of its children or from a dict of them
Build ==
    /\ pc = "start" /\ input = <<>>
    /\ \E fm \in {"list", "dict"} :
          tags' = IF fm = "list" THEN orig ELSE AsDictAll(orig)
    /\ mode' = "build"
    /\ pc' = "built"
    /\ UNCHANGED <<hashOrder, input, orig, stream, rt, op, arg, ret, out>>

\* string = nbt.write()
nbt_write_call ==
    /\ pc \in {"built", "done"} /\ ~rt
    /\ out' = nbt_write(tags)
    /\ pc' = IF out'.err = "" THEN "written" ELSE "raised"
    /\ op' = [NoOp EXCEPT !.fn = "nbt.write"]
    /\ UNCHANGED <<hashOrder, mode, input, orig, tags, stream, rt, arg, ret>>

\* nbt.read(stream) up to its loop, given the input or what nbt.write returned
nbt_read_call ==
    /\ \/ pc = "start" /\ orig = <<>> /\ stream' = input /\ mode' = "decode"
          /\ rt' = FALSE
       \/ pc = "written" /\ stream' = out.bytes /\ rt' = TRUE /\ UNCHANGED mode
    /\ tags' = <<>>
    /\ pc' = "reading"
    /\ op' = [NoOp EXCEPT !.fn = "nbt.read"]
    /\ UNCHANGED <<hashOrder, input, orig, arg, ret, out>>

\* one iteration of nbt.read's loop
nbt_read_iter ==
    /\ pc = "reading" /\ Len(stream) > 0 /\ Len(tags) < MaxTags
    /\ op' = [NoOp EXCEPT !.fn = "nbt.read_tag"]
    /\ arg' = stream
    /\ ret' = read_tag(stream)
    /\ IF ret'.err # ""
       THEN pc' = "raised" /\ UNCHANGED <<tags, stream>>
       ELSE /\ tags' = Append(tags, ret'.tag)
            /\ stream' = SliceFrom(stream, ret'.bytes)
            /\ pc' = "reading"
    /\ UNCHANGED <<hashOrder, mode, input, orig, rt, out>>

\* nbt.read's loop ends
nbt_read_return ==
    /\ pc = "reading" /\ Len(stream) = 0
    /\ pc' = "done"
    /\ UNCHANGED <<hashOrder, mode, input, orig, tags, stream, rt, op, arg, ret, out>>

\* cls.read(input, named), called on its own
Call(cls, named, r) ==
    /\ pc = "start" /\ orig = <<>>
    /\ mode' = "codec"
    /\ op' = [NoOp EXCEPT !.fn = "read", !.cls = cls, !.named = named]
    /\ arg' = input
    /\ ret' = r
    /\ pc' = "returned"
    /\ UNCHANGED <<hashOrder, input, orig, tags, stream, rt, out>>

TAG_Basic_read_call ==
    \E cls \in TAG_Byte_byte..TAG_Double_byte, named \in BOOLEAN :
        Call(cls, named, TAG_Basic_read(cls, input, named))

TAG_String_read_call ==
    \E named \in BOOLEAN :
        Call(TAG_String_byte, named, TAG_String_read(input, named))

TAG_Byte_Array_read_call ==
    \E named \in BOOLEAN :
        Call(TAG_Byte_Array_byte, named, TAG_Byte_Array_read(input, named))

TAG_List_read_call ==
    \E named \in BOOLEAN :
        Call(TAG_List_byte, named, TAG_List_read(input, named))

TAG_Compound_read_call ==
    \E named \in BOOLEAN :
        Call(TAG_Compound_byte, named, TAG_Compound_read(input, named))

\* tag.write(type_byte) of the tag a read returned
tag_write_call ==
    /\ pc = "returned" /\ ret.err = ""
    /\ \E type_byte \in BOOLEAN :
          /\ out' = TagWrite(ret.tag, type_byte)
          /\ op' = [op EXCEPT !.fn = "write", !.type_byte = type_byte]
    /\ pc' = "rewritten"
    /\ UNCHANGED <<hashOrder, mode, input, orig, tags, stream, rt, arg, ret>>

Next ==
    \/ Build
    \/ nbt_write_call
    \/ nbt_read_call
    \/ nbt_read_iter
    \/ nbt_read_return
    \/ TAG_Basic_read_call
    \/ TAG_String_read_call
    \/ TAG_Byte_Array_read_call
    \/ TAG_List_read_call
    \/ TAG_Compound_read_call
    \/ tag_write_call

Spec == Init /\ [][Next]_vars

-----------------------------------------------------------------------------
(* the claims *)

RECURSIVE AsList(_)
RECURSIVE AsListAll(_)

AsListAll(ts) ==
    IF ts = <<>> THEN <<>> ELSE <<AsList(ts[1])>> \o AsListAll(Tail(ts))

\* the tree t with every Compound's children listed in the order they are
\* iterated in
AsList(t) ==
    CASE t.byte = TAG_Compound_byte ->
             [t EXCEPT !.entries = AsListAll(IF t.form = "dict"
                                             THEN values(t.entries)
                                             ELSE t.entries),
                       !.form = "list"]
      [] t.byte = TAG_List_byte -> [t EXCEPT !.entries = AsListAll(t.entries)]
      [] OTHER -> t

\* a standalone cls.read(arg, False) has returned or raised
Read(cls) == pc = "returned" /\ op.fn = "read" /\ op.cls = cls /\ ~op.named

\* the unsigned 16-bit and the non-negative 32-bit number at the head of s
U16(s) == s[1] * 256 + s[2]
U31(s) == ((s[1] * 256 + s[2]) * 256 + s[3]) * 256 + s[4]

\* C1: a well-formed tree placed as the document's root tags survives
\* nbt.write followed by nbt.read: neither call raises, and the tags read
\* back are the tree's, names, child order and element types included.
C1_RoundTrip ==
    mode = "build" =>
        /\ pc # "raised"
        /\ (pc = "done" /\ rt) => AsListAll(tags) = orig

UniquePayloads ==
    { Wire(TAG_Compound(es, "list"), FALSE) : es \in { e \in EntrySeqs : UniqueNames(e) } }

\* C2: TAG_Compound.write of what TAG_Compound.read made of a well-formed
\* Compound payload emits the entries in the input's order and one End byte,
\* that is, the input itself.
C2_OrderPreserved ==
    (pc = "rewritten" /\ op.cls = TAG_Compound_byte /\ ~op.named /\ ~op.type_byte
        /\ arg \in UniquePayloads)
        => out = Bytes(arg)

\* C3: TAG_Compound.read of n named entries followed by one End byte reports
\* the entries' encoded sizes plus one as consumed, and returns a Compound of
\* n children, also when two entries carry the same name.
C3_CompoundFraming ==
    Read(TAG_Compound_byte) =>
        \A es \in EntrySeqs :
            arg = Wire(TAG_Compound(es, "list"), FALSE) =>
                /\ ret.err = ""
                /\ ret.bytes = Len(WireAll(es, TRUE)) + 1
                /\ ret.tag.length = Len(es)
                /\ Len(ret.tag.entries) = Len(es)

\* the unnamed payload of class cls at the head of s needs more bytes than s
\* holds (a declared length with the high bit clear)
Truncated(cls, s) ==
    CASE IsBasic(cls) -> Len(s) < size(cls)
      [] cls = TAG_String_byte ->
             Len(s) < 2 \/ (s[1] < 128 /\ U16(s) > Len(s) - 2)
      [] cls = TAG_Byte_Array_byte ->
             Len(s) < 4 \/ (s[1] < 128 /\ U31(s) > Len(s) - 4)
      [] OTHER -> FALSE

\* C4: a read that needs more bytes than remain (a primitive's width, a
\* String's or Byte_Array's declared length) fails: it returns no tag.
C4_Truncation ==
    (pc = "returned" /\ op.fn = "read" /\ ~op.named /\ Truncated(op.cls, arg))
        => ret.err # ""

\* the 32-bit count of the List or Byte_Array payload s is negative
NegativeCount(cls, s) ==
    CASE cls = TAG_List_byte -> Len(s) >= 5 /\ s[1] \in type_bytes /\ s[2] >= 128
      [] cls = TAG_Byte_Array_byte -> Len(s) >= 4 /\ s[1] >= 128
      [] OTHER -> FALSE

\* C5: TAG_List.read and TAG_Byte_Array.read fail whenever the decoded count
\* is negative.
C5_NegativeCount ==
    (pc = "returned" /\ op.fn = "read" /\ ~op.named /\ NegativeCount(op.cls, arg))
        => ret.err # ""

\* documents whose first root tag is a Compound or a List holding an unknown
\* type id
NestedUnknown ==
    { <<TAG_Compound_byte, 0, 0>> \o WireAll(es, TRUE) \o <<b, 0, 0, 0>> :
        es \in { e \in EntrySeqs : Len(e) <= 1 }, b \in BadIds }
    \cup { <<TAG_List_byte, 0, 0, b>> \o n : b \in BadIds,
                                            n \in {<<0, 0, 0, 0>>, <<0, 0, 0, 1, 0>>} }

\* C6: a type-id byte outside 0..10 makes the decode fail with KeyError and
\* yields no tag: as the next root tag's type (nbt.read_tag), as an entry's
\* type in a Compound, as a List's element type, standalone or nested in a
\* document.
C6_UnknownType ==
    /\ (op.fn = "nbt.read_tag" /\ arg # <<>> /\ arg[1] \notin type_bytes)
           => (ret.err = "KeyError" /\ ret.tag = NoTag /\ pc = "raised")
    /\ (op.fn = "nbt.read_tag" /\ arg \in NestedUnknown)
           => (ret.err = "KeyError" /\ ret.tag = NoTag /\ pc = "raised")
    /\ (Read(TAG_Compound_byte) /\ arg \in CompoundUnknown)
           => (ret.err = "KeyError" /\ ret.tag = NoTag)
    /\ (Read(TAG_List_byte) /\ arg # <<>> /\ arg[1] \notin type_bytes)
           => (ret.err = "KeyError" /\ ret.tag = NoTag)

\* nbt.read has met type id 99 after one entry of a root Compound
C6_Witness ==
    /\ op.fn = "nbt.read_tag" /\ pc = "raised" /\ ret.err = "KeyError"
    /\ arg \in NestedUnknown /\ Len(arg) > 7 /\ arg[1] = TAG_Compound_byte
    /\ \E i \in 1..Len(arg) : arg[i] = 99

\* C7: when nbt.read fails, nbt.tags holds none of the root tags decoded from
\* the buffer.
C7_NoPartialResult ==
    (pc = "raised" /\ op.fn = "nbt.read_tag") => tags = <<>>

\* C8: for a length L in 0..65535 in the two length bytes, followed by at
\* least L bytes, TAG_String.read returns L bytes of payload and reports
\* 2 + L bytes consumed.
C8_UnsignedLength ==
    (Read(TAG_String_byte) /\ Len(arg) >= 2 /\ Len(arg) - 2 >= U16(arg))
        => /\ ret.err = ""
           /\ Len(ret.tag.data) = U16(arg)
           /\ ret.bytes = 2 + U16(arg)

\* C9: for every element type id t in 0..10, TAG_List.read of type t and
\* count 0 returns a List of type t with no entries, and TAG_List.write of it
\* emits the same five bytes.
C9_EmptyList ==
    \A t \in type_bytes :
        (op.cls = TAG_List_byte /\ ~op.named /\ arg = <<t, 0, 0, 0, 0>>) =>
            /\ pc = "returned" =>
                   /\ ret.err = "" /\ ret.bytes = 5
                   /\ ret.tag.byte = TAG_List_byte /\ ret.tag.type = t
                   /\ ret.tag.length = 0 /\ ret.tag.entries = <<>>
            /\ (pc = "rewritten" /\ ~op.type_byte) => out = Bytes(<<t, 0, 0, 0, 0>>)

\* an empty List of Int read and written back
C9_Witness ==
    /\ pc = "rewritten" /\ op.cls = TAG_List_byte /\ ~op.named /\ ~op.type_byte
    /\ arg = <<TAG_Int_byte, 0, 0, 0, 0>>
    /\ ret.tag.type = TAG_Int_byte /\ ret.tag.entries = <<>>
    /\ out = Bytes(<<TAG_Int_byte, 0, 0, 0, 0>>)

\* C10: nbt.read terminates: every nbt.read_tag that returns a tag reports at
\* least one byte and at most the remaining bytes consumed, so that each
\* iteration of the loop leaves a strictly shorter stream; an empty buffer is
\* read as no tags at all.
C10_Terminates ==
    /\ (op.fn = "nbt.read_tag" /\ pc = "reading" /\ ret.err = "")
           => /\ ret.bytes >= 1
              /\ ret.bytes <= Len(arg)
              /\ Len(stream) < Len(arg)
    /\ (pc = "done" /\ mode = "decode" /\ ~rt /\ input = <<>>) => tags = <<>>

====
